---- MODULE Spec2Model ----
(***************************************************************************)
(* Model of runaway-node-api: the Express route layer of src/index.js, the  *)
(* relational store it talks to, and the activity normalizer                *)
(* (transformData) of the import script.                                    *)
(*                                                                          *)
(* src/index.js holds two versions of the server one after the other; the   *)
(* second one (from line 339 on) defines every route and is the one         *)
(* modelled.  A handler is two steps: the code up to its await, and the     *)
(* code from the reply of the store on; the store executes a call in one    *)
(* step.  Each group of routes has its own specification over the tables it *)
(* uses: SpecTokens, SpecLookup, SpecUpdate, SpecInsert; SpecNorm runs the  *)
(* normalizer on the records of the import file.                            *)
(*                                                                          *)
(* JavaScript values are encoded as strings: "undefined", "null", "false",  *)
(* "true" and "n0" "n1" "n2" (the numbers 0 1 2) stand for the non-string   *)
(* values, "d1000" for the Date of 1000 ms; any other string is itself.     *)
(* An object is a function from the keys it has to such values.             *)
(***************************************************************************)
EXTENDS Integers, Sequences, FiniteSets, TLC

VARIABLES
    tokens,         \* table tokens of the store: a set of rows
    sessions,       \* table sessions
    profiles,       \* table profiles (read by GET /auth/:userId)
    activities,     \* table activities
    athletes,       \* table athletes
    athlete_stats,  \* table athlete_stats
    maps,           \* table maps
    reqs,           \* the HTTP requests being handled, one per connection
    applied,        \* history: per user_id the last upsert the store applied
    inRecord,       \* normalizer: the input record
    out,            \* normalizer: transformData(inRecord)
    out2,           \* normalizer: transformData(out)
    npc,            \* normalizer: position of the run
    file,           \* importer: assets/activities.json
    imp             \* importer: the locals and position of importActivities

storeVars == <<tokens, sessions, profiles, activities, athletes,
               athlete_stats, maps>>
serverVars == <<storeVars, reqs, applied>>
normVars == <<inRecord, out, out2, npc>>
importVars == <<file, imp>>
vars == <<serverVars, normVars, importVars>>

\* ------------------------------------------------------------------------
\* Bounds
\* ------------------------------------------------------------------------
\* largest number of keys an input record of the normalizer carries
MaxKeys == 2

\* ------------------------------------------------------------------------
\* JavaScript values
\* ------------------------------------------------------------------------
Undefined == "undefined"
JSNull == "null"

\* the values `a || b` skips
Falsy == {Undefined, JSNull, "false", "n0", ""}

Truthy(v) == v \notin Falsy

\* a || d
JSOr(a, d) == IF Truthy(a) THEN a ELSE d

\* record.key : a missing key reads as undefined
Get(record, key) == IF key \in DOMAIN record THEN record[key] ELSE Undefined

\* v?.toString()
OptToString(v) ==
    CASE v = Undefined -> Undefined
      [] v = JSNull -> Undefined
      [] v = "n0" -> "0"
      [] v = "n1" -> "1"
      [] v = "n2" -> "2"
      [] v = "n3" -> "3"
      [] v = "n4" -> "4"
      [] v = "true" -> "'true'"
      [] v = "false" -> "'false'"
      [] OTHER -> v

EmptyObject == [k \in {} |-> Undefined]

\* ------------------------------------------------------------------------
\* The normalizer (import script)
\* ------------------------------------------------------------------------
\* a copy-paste slip: distance and moving_time read each other's source
transformedDataSwapped(record) ==
    [ external_id |-> OptToString(Get(record, "id")),
      upload_id |-> Get(record, "upload_id"),
      name |-> Get(record, "name"),
      detail |-> Get(record, "description"),
      distance |-> Get(record, "moving_time"),
      moving_time |-> Get(record, "distance"),
      elapsed_time |-> Get(record, "elapsed_time"),
      high_elevation |-> Get(record, "elev_high"),
      low_elevation |-> Get(record, "elev_low"),
      total_elevation_gain |-> Get(record, "total_elevation_gain"),
      start_date |-> Get(record, "start_date"),
      start_date_local |-> Get(record, "start_date_local"),
      time_zone |-> Get(record, "timezone"),
      achievement_count |-> JSOr(Get(record, "achievement_count"), "n0"),
      kudos_count |-> JSOr(Get(record, "kudos_count"), "n0"),
      comment_count |-> JSOr(Get(record, "comment_count"), "n0"),
      athlete_count |-> JSOr(Get(record, "athlete_count"), "n1"),
      photo_count |-> JSOr(Get(record, "photo_count"), "n0"),
      total_photo_count |-> JSOr(Get(record, "total_photo_count"), "n0"),
      trainer |-> JSOr(Get(record, "trainer"), "false"),
      commute |-> JSOr(Get(record, "commute"), "false"),
      manual |-> JSOr(Get(record, "manual"), "false"),
      private |-> JSOr(Get(record, "private"), "false"),
      flagged |-> JSOr(Get(record, "flagged"), "false"),
      average_speed |-> Get(record, "average_speed"),
      max_speed |-> Get(record, "max_speed"),
      calories |-> Get(record, "calories"),
      has_kudoed |-> JSOr(Get(record, "has_kudoed"), "false"),
      kilo_joules |-> Get(record, "kilojoules"),
      average_power |-> Get(record, "average_watts"),
      max_power |-> Get(record, "max_watts"),
      device_watts |-> JSOr(Get(record, "device_watts"), "false"),
      has_heart_rate |-> JSOr(Get(record, "has_heartrate"), "false"),
      average_heart_rate |-> Get(record, "average_heartrate"),
      max_heart_rate |-> Get(record, "max_heartrate") ]

\* the object literal of transformData
transformedData(record) ==
    [ external_id |-> OptToString(Get(record, "id")),
      upload_id |-> Get(record, "upload_id"),
      name |-> Get(record, "name"),
      detail |-> Get(record, "description"),
      distance |-> Get(record, "distance"),
      moving_time |-> Get(record, "moving_time"),
      elapsed_time |-> Get(record, "elapsed_time"),
      high_elevation |-> Get(record, "elev_high"),
      low_elevation |-> Get(record, "elev_low"),
      total_elevation_gain |-> Get(record, "total_elevation_gain"),
      start_date |-> Get(record, "start_date"),
      start_date_local |-> Get(record, "start_date_local"),
      time_zone |-> Get(record, "timezone"),
      achievement_count |-> JSOr(Get(record, "achievement_count"), "n0"),
      kudos_count |-> JSOr(Get(record, "kudos_count"), "n0"),
      comment_count |-> JSOr(Get(record, "comment_count"), "n0"),
      athlete_count |-> JSOr(Get(record, "athlete_count"), "n1"),
      photo_count |-> JSOr(Get(record, "photo_count"), "n0"),
      total_photo_count |-> JSOr(Get(record, "total_photo_count"), "n0"),
      trainer |-> JSOr(Get(record, "trainer"), "false"),
      commute |-> JSOr(Get(record, "commute"), "false"),
      manual |-> JSOr(Get(record, "manual"), "false"),
      private |-> JSOr(Get(record, "private"), "false"),
      flagged |-> JSOr(Get(record, "flagged"), "false"),
      average_speed |-> Get(record, "average_speed"),
      max_speed |-> Get(record, "max_speed"),
      calories |-> Get(record, "calories"),
      has_kudoed |-> JSOr(Get(record, "has_kudoed"), "false"),
      kilo_joules |-> Get(record, "kilojoules"),
      average_power |-> Get(record, "average_watts"),
      max_power |-> Get(record, "max_watts"),
      device_watts |-> JSOr(Get(record, "device_watts"), "false"),
      has_heart_rate |-> JSOr(Get(record, "has_heartrate"), "false"),
      average_heart_rate |-> Get(record, "average_heartrate"),
      max_heart_rate |-> Get(record, "max_heartrate") ]

\* the undefined -> null pass left out
UndefinedToNullSkipped(obj) == obj

\* "Convert any undefined values to null"
UndefinedToNull(obj) ==
    [k \in DOMAIN obj |-> IF obj[k] = Undefined THEN JSNull ELSE obj[k]]

transformData(record) == UndefinedToNull(transformedData(record))

\* the fixed column set of an ActivityRecord
ActivityFields == DOMAIN transformedData(EmptyObject)

BooleanFields ==
    {"trainer", "commute", "manual", "private", "flagged", "has_kudoed",
     "device_watts", "has_heart_rate"}

CounterFields ==
    {"achievement_count", "kudos_count", "comment_count", "photo_count",
     "total_photo_count"}

\* the key of the input a column is read from
SourceKey(field) ==
    CASE field = "external_id" -> "id"
      [] field = "detail" -> "description"
      [] field = "high_elevation" -> "elev_high"
      [] field = "low_elevation" -> "elev_low"
      [] field = "time_zone" -> "timezone"
      [] field = "kilo_joules" -> "kilojoules"
      [] field = "average_power" -> "average_watts"
      [] field = "max_power" -> "max_watts"
      [] field = "has_heart_rate" -> "has_heartrate"
      [] field = "average_heart_rate" -> "average_heartrate"
      [] field = "max_heart_rate" -> "max_heartrate"
      [] OTHER -> field

\* columns that are read from a key of another name
RenamedFields == {f \in ActivityFields : SourceKey(f) # f}

\* every key the normalizer reads, and every key it writes
InputKeys == {SourceKey(f) : f \in ActivityFields} \cup ActivityFields

\* the values the import file carries under a key
ValuesOf(key) ==
    CASE key \in {SourceKey(f) : f \in BooleanFields} \cup BooleanFields ->
            {JSNull, "false", "true"}
      [] key \in CounterFields \cup {"athlete_count"} -> {JSNull, "n0", "n2"}
      [] key = "id" -> {JSNull, "n0", "n2", "x"}
      [] OTHER -> {JSNull, "x"}

Extend(r, k, v) == [x \in DOMAIN r \cup {k} |-> IF x = k THEN v ELSE r[x]]

RECURSIVE KeySets(_)
\* the sets of at most n keys
KeySets(n) ==
    IF n = 0 THEN {{}}
    ELSE LET smaller == KeySets(n - 1)
         IN  smaller \cup {K \cup {k} : K \in smaller, k \in InputKeys}

AllValues == UNION {ValuesOf(k) : k \in InputKeys}

\* a record of the import file that carries the keys K
IsInputRecord(r, K) == DOMAIN r = K /\ \A k \in K : r[k] \in ValuesOf(k)

\* the record that carries every key, with a value that is not falsy
FullRecord == [k \in InputKeys |-> CHOOSE v \in ValuesOf(k) : Truthy(v)]

\* ------------------------------------------------------------------------
\* The store client (supabase-js) as the routes use it.  A table is the
\* sequence of its rows; a reply is {data, error}.
\* ------------------------------------------------------------------------
\* error: null
NoError == EmptyObject

\* what a store call can run into: nothing, a unique-constraint violation,
\* another database error, a failed fetch
StoreFaults == {"none", "23505", "XX000", "fetch"}

StoreError(code) ==
    CASE code = "fetch" -> [code |-> "", message |-> "TypeError: fetch failed"]
      [] code = "PGRST116" ->
            [code |-> code,
             message |-> "JSON object requested, multiple (or no) rows returned"]
      [] code = "23505" ->
            [code |-> code,
             message |-> "duplicate key value violates unique constraint"]
      [] code = "23502" ->
            [code |-> code,
             message |-> "null value violates not-null constraint"]
      [] OTHER -> [code |-> code, message |-> "internal error"]

Reply(data, error) == [data |-> data, error |-> error]

\* .eq(column, value): the value travels as text and a null column never
\* matches
Eq(table, column, value) ==
    SelectSeq(table, LAMBDA row :
        /\ Get(row, column) \notin {Undefined, JSNull}
        /\ OptToString(Get(row, column)) = OptToString(value))

\* .select('*')
Star == {"*"}

\* .select('a, b') on one row
Columns(row, cols) == IF cols = Star THEN row ELSE [k \in cols |-> row[k]]

\* .select(cols).eq(column, value).single(): exactly one row, or PGRST116
Single(table, cols, column, value, fault) ==
    LET found == Eq(table, column, value)
    IN  IF fault # "none" THEN Reply(<<>>, StoreError(fault))
        ELSE IF Len(found) # 1 THEN Reply(<<>>, StoreError("PGRST116"))
        ELSE Reply(<<Columns(found[1], cols)>>, NoError)

\* .maybeSingle(): no row is data null without an error
MaybeSingle(table, cols, column, value, fault) ==
    LET found == Eq(table, column, value)
    IN  IF fault # "none" THEN Reply(<<>>, StoreError(fault))
        ELSE IF Len(found) > 1 THEN Reply(<<>>, StoreError("PGRST116"))
        ELSE IF Len(found) = 0 THEN Reply(<<>>, NoError)
        ELSE Reply(<<Columns(found[1], cols)>>, NoError)

\* the table after an insert that does not look at the key
UpsertAppends(table, key, row) == Append(table, row)

\* the table after .upsert(row): the row of the same primary key is
\* replaced, a new key is appended
Upsert(table, key, row) ==
    IF \E i \in DOMAIN table : table[i][key] = row[key]
    THEN [i \in DOMAIN table |->
            IF table[i][key] = row[key] THEN row ELSE table[i]]
    ELSE Append(table, row)

\* ------------------------------------------------------------------------
\* The route layer
\* ------------------------------------------------------------------------
\* the connections that carry requests
Conns == {"c1", "c2"}

\* readings of the server clock, new Date().toISOString()
ServerTimes == {"t1"}

\* a request as it arrives: its JSON payload may be absent
Payload(obj) == [present |-> TRUE, obj |-> obj]
NoPayload == [present |-> FALSE, obj |-> EmptyObject]

\* app.use(express.json()) of express 4: req.body is the parsed object,
\* and {} when the request has no body
expressJson(raw) == IF raw.present THEN raw.obj ELSE EmptyObject

Idle ==
    [pc |-> "idle", route |-> "", key |-> "", sent |-> FALSE,
     body |-> EmptyObject,
     call |-> EmptyObject, calls |-> 0, data |-> <<>>, error |-> NoError,
     status |-> 0, json |-> EmptyObject, rows |-> <<>>]

Free(c) == reqs[c].pc \in {"idle", "done"}

Awaiting(c, route) == reqs[c].pc = "awaiting" /\ reqs[c].route = route

\* the handler starts on a request: sent tells whether it had a payload
Arrived(route, key, raw) ==
    [Idle EXCEPT !.pc = "running", !.route = route, !.key = key,
                 !.sent = raw.present, !.body = expressJson(raw)]

\* res.status(status).json(json)
Answer(req, status, json) ==
    [req EXCEPT !.pc = "done", !.status = status, !.json = json]

\* const { data, error } = await supabase.from(..)...: the call is issued
Await(req, call) ==
    [req EXCEPT !.pc = "awaiting", !.call = call, !.calls = @ + 1]

\* the reply of the store is bound to data and error
Bound(req, reply) == [req EXCEPT !.data = reply.data, !.error = reply.error]

ErrorBody(message) == [error |-> message]

\* a catch block that issues the call once more before it gives up
CaughtRetries(req) ==
    IF req.calls < 2
    THEN [req EXCEPT !.pc = "awaiting", !.calls = @ + 1]
    ELSE Answer(req, 500, ErrorBody(req.error.message))

\* catch (error) { res.status(500).json({ error: error.message }) }
Caught(req) == Answer(req, 500, ErrorBody(req.error.message))

TablesEmpty ==
    /\ tokens = <<>> /\ sessions = <<>> /\ profiles = <<>>
    /\ activities = <<>> /\ athletes = <<>> /\ athlete_stats = <<>>
    /\ maps = <<>>

ServerIdle ==
    /\ TablesEmpty
    /\ reqs = [c \in Conns |-> Idle]
    /\ applied = EmptyObject

\* importActivities before it runs: let successCount = 0, errorCount = 0
ImportStart ==
    [pc |-> "start", idx |-> 0, successCount |-> 0, errorCount |-> 0,
     call |-> EmptyObject, attempts |-> <<>>, delayed |-> {},
     caught |-> "none", exitCode |-> -1, reported |-> FALSE]

\* the import script is not run
ImportIdle ==
    /\ file = [readable |-> TRUE, records |-> <<>>]
    /\ imp = ImportStart

NormIdle ==
    /\ inRecord = EmptyObject
    /\ out = EmptyObject
    /\ out2 = EmptyObject
    /\ npc = "start"
    /\ ImportIdle

\* ------------------------------------------------------------------------
\* Tokens: POST /tokens, GET /refresh-tokens/:user_id, GET /tokens/:user_id
\* ------------------------------------------------------------------------
TokenOne ==
    [user_id |-> "u1", refresh_token |-> "r1", access_token |-> "a1",
     expires_at |-> "n1"]
TokenTwo ==
    [user_id |-> "u1", refresh_token |-> "r2", access_token |-> "a2",
     expires_at |-> "n2"]
TokenOther ==
    [user_id |-> "u2", refresh_token |-> "r1", access_token |-> "a1",
     expires_at |-> "n1"]

\* the requests sent to POST /tokens
TokenRequests ==
    { Payload(TokenOne), Payload(TokenTwo), Payload(TokenOther),
      Payload([refresh_token |-> "r1", access_token |-> "a1",
               expires_at |-> "n1"]),
      Payload([user_id |-> "u1", access_token |-> "a1", expires_at |-> "n1"]),
      Payload([TokenOne EXCEPT !.access_token = ""]),
      Payload([TokenOne EXCEPT !.expires_at = "n0"]),
      Payload([TokenOne EXCEPT !.expires_at = "x"]),
      NoPayload }

\* the :user_id of a request path
UserKeys == {"u1", "u2", " "}

\* new Date(expires_at * 1000) as the client serialises it: an Invalid Date
\* is sent as null
NewDateOfSeconds(v) ==
    CASE v = "n1" -> "d1000"
      [] v = "n2" -> "d2000"
      [] v = "true" -> "d1000"
      [] v \in {"n0", "false", JSNull, ""} -> "d0"
      [] OTHER -> JSNull

\* README: every column of tokens is not null
TokensNotNull ==
    {"user_id", "refresh_token", "access_token", "expires_at", "updated_at"}

\* .upsert(row).select() on tokens, whose primary key is user_id
UpsertSelect(table, row, fault) ==
    IF fault = "empty" THEN [data |-> <<>>, error |-> NoError, table |-> table]
    ELSE IF fault # "none"
    THEN [data |-> <<>>, error |-> StoreError(fault), table |-> table]
    ELSE IF \E k \in TokensNotNull : row[k] = JSNull
    THEN [data |-> <<>>, error |-> StoreError("23502"), table |-> table]
    ELSE [data |-> <<row>>, error |-> NoError,
          table |-> Upsert(table, "user_id", row)]

\* String.prototype.trim on the keys used here
Trim(str) == IF str = " " THEN "" ELSE str

\* POST /tokens up to the await
PostTokens(c) ==
    /\ Free(c)
    /\ \E raw \in TokenRequests :
         LET body == expressJson(raw)
             req == Arrived("POST /tokens", "", raw)
             user_id == Get(body, "user_id")
             refresh_token == Get(body, "refresh_token")
             access_token == Get(body, "access_token")
             expires_at == Get(body, "expires_at")
         IN  IF \/ ~ Truthy(user_id) \/ ~ Truthy(refresh_token)
                \/ ~ Truthy(access_token) \/ ~ Truthy(expires_at)
             THEN reqs' = [reqs EXCEPT ![c] = Answer(req, 400, ErrorBody(
                     "user_id, refresh_token, access_token, and expires_at are required"))]
             ELSE \E now \in ServerTimes :
                    reqs' = [reqs EXCEPT ![c] = Await(req,
                        [user_id |-> user_id,
                         refresh_token |-> refresh_token,
                         access_token |-> access_token,
                         expires_at |-> NewDateOfSeconds(expires_at),
                         updated_at |-> now])]
    /\ UNCHANGED <<storeVars, applied, normVars, importVars>>

\* a 23505 answered like any other store error
TokenErrorAnswerNoConflict(req) == Caught(req)

\* if (error) { if (error.code === '23505') 409 else throw }
TokenErrorAnswer(req) ==
    IF req.error.code = "23505"
    THEN Answer(req, 409, ErrorBody("Token conflict occurred"))
    ELSE Caught(req)

\* POST /tokens from the reply of the store on
PostTokensResume(c) ==
    /\ Awaiting(c, "POST /tokens")
    /\ \E fault \in StoreFaults \cup {"empty"} :
         LET row == reqs[c].call
             reply == UpsertSelect(tokens, row, fault)
             req == Bound(reqs[c], reply)
         IN  /\ tokens' = reply.table
             /\ applied' = IF reply.error = NoError /\ Len(reply.data) > 0
                            THEN Extend(applied, row.user_id, row)
                            ELSE applied
             /\ reqs' = [reqs EXCEPT ![c] =
                    IF req.error # NoError THEN TokenErrorAnswer(req)
                    ELSE IF Len(req.data) = 0
                    THEN Answer(req, 500, ErrorBody("Failed to upsert token"))
                    ELSE Answer(req, 200, req.data[1])]
    /\ UNCHANGED <<sessions, profiles, activities, athletes, athlete_stats,
                   maps, normVars, importVars>>

\* if (error) return 404: every error is taken for "no row"
LookupErrorAnswerAlways404(req, notFound) ==
    Answer(req, 404, ErrorBody(notFound))

\* if (error) { if (error.code === 'PGRST116') 404 else throw }
LookupErrorAnswer(req, notFound) ==
    IF req.error.code = "PGRST116"
    THEN Answer(req, 404, ErrorBody(notFound))
    ELSE Caught(req)

\* GET /refresh-tokens/:user_id up to the await
GetRefreshToken(c) ==
    /\ Free(c)
    /\ \E user_id \in UserKeys :
         LET req == Arrived("GET /refresh-tokens/:user_id", user_id,
                            NoPayload)
         IN  reqs' = [reqs EXCEPT ![c] =
                IF ~ Truthy(user_id)
                THEN Answer(req, 400, ErrorBody("user_id is required"))
                ELSE Await(req, [user_id |-> user_id])]
    /\ UNCHANGED <<storeVars, applied, normVars, importVars>>

GetRefreshTokenResume(c) ==
    /\ Awaiting(c, "GET /refresh-tokens/:user_id")
    /\ \E fault \in StoreFaults :
         LET reply == Single(tokens, {"refresh_token", "expires_at"},
                             "user_id", reqs[c].key, fault)
             req == Bound(reqs[c], reply)
         IN  reqs' = [reqs EXCEPT ![c] =
                IF req.error # NoError
                THEN LookupErrorAnswer(req, "Refresh token not found")
                ELSE Answer(req, 200, req.data[1])]
    /\ UNCHANGED <<storeVars, applied, normVars, importVars>>

\* GET /tokens/:user_id up to the await
GetAccessToken(c) ==
    /\ Free(c)
    /\ \E user_id \in UserKeys :
         LET req == Arrived("GET /tokens/:user_id", user_id, NoPayload)
         IN  reqs' = [reqs EXCEPT ![c] =
                IF ~ Truthy(user_id) \/ Trim(user_id) = ""
                THEN Answer(req, 400, ErrorBody("user_id is required"))
                ELSE Await(req, [user_id |-> user_id])]
    /\ UNCHANGED <<storeVars, applied, normVars, importVars>>

\* the message of the store error is passed on
DatabaseErrorWithMessage(req) == Caught(req)

\* if (error) { return res.status(500).json({ error: 'Database error
\* occurred' }) }
DatabaseError(req) == Answer(req, 500, ErrorBody("Database error occurred"))

GetAccessTokenResume(c) ==
    /\ Awaiting(c, "GET /tokens/:user_id")
    /\ \E fault \in StoreFaults :
         LET reply == MaybeSingle(tokens, {"access_token", "expires_at"},
                                  "user_id", reqs[c].key, fault)
             req == Bound(reqs[c], reply)
         IN  reqs' = [reqs EXCEPT ![c] =
                IF req.error # NoError
                THEN DatabaseError(req)
                ELSE IF Len(req.data) = 0
                THEN Answer(req, 404, ErrorBody("Access token not found"))
                ELSE IF ~ Truthy(req.data[1].access_token)
                THEN Answer(req, 404,
                            ErrorBody("Access token not found for this user"))
                ELSE Answer(req, 200, req.data[1])]
    /\ UNCHANGED <<storeVars, applied, normVars, importVars>>

TokensInit == ServerIdle /\ NormIdle

TokensNext ==
    \E c \in Conns :
        \/ PostTokens(c)
        \/ PostTokensResume(c)
        \/ GetRefreshToken(c)
        \/ GetRefreshTokenResume(c)
        \/ GetAccessToken(c)
        \/ GetAccessTokenResume(c)

SpecTokens == TokensInit /\ [][TokensNext]_vars

Done(c, route) == reqs[c].pc = "done" /\ reqs[c].route = route

\* ------------------------------------------------------------------------
\* Lookups: GET /activities/:id, GET /sessions/:sessionId, GET /auth/:userId
\* (and the two token lookups above), with POST /sessions
\* ------------------------------------------------------------------------
\* largest number of rows the inserting routes fill a table with
MaxRows == 2

\* a row of activities: the identity column and every column of the README
\* schema, null where the insert gave no value (no column has a default)
StoredActivity(id, payload) ==
    [k \in ActivityFields \cup {"id"} |->
        IF k = "id" THEN id ELSE IF k \in DOMAIN payload THEN payload[k]
        ELSE JSNull]

\* the :id of GET /activities/:id
ActivityKeys == {"1", "999"}

\* the :sessionId of GET /sessions/:sessionId
SessionKeys == {"s1", "s2"}

SessionOne == [session_id |-> "s1", user_id |-> "u1", auth_id |-> "au1"]

\* the requests sent to POST /sessions
SessionRequests ==
    { Payload(SessionOne),
      Payload([user_id |-> "u1", auth_id |-> "au1"]),
      Payload([session_id |-> "s1", user_id |-> "u1"]),
      Payload([SessionOne EXCEPT !.user_id = ""]),
      NoPayload }

\* .insert([row]).select() on a table without generated columns
InsertSelect(table, row, fault) ==
    IF fault # "none"
    THEN [data |-> <<>>, error |-> StoreError(fault), table |-> table]
    ELSE [data |-> <<row>>, error |-> NoError, table |-> Append(table, row)]

\* the inserts on their way to a table
InFlight(route) == Cardinality({c \in Conns : Awaiting(c, route)})

\* GET /activities/:id up to the await
GetActivity(c) ==
    /\ Free(c)
    /\ \E id \in ActivityKeys :
         reqs' = [reqs EXCEPT ![c] =
            Await(Arrived("GET /activities/:id", id, NoPayload),
                  [id |-> id])]
    /\ UNCHANGED <<storeVars, applied, normVars, importVars>>

GetActivityResume(c) ==
    /\ Awaiting(c, "GET /activities/:id")
    /\ \E fault \in StoreFaults :
         LET reply == Single(activities, Star, "id", reqs[c].key, fault)
             req == Bound(reqs[c], reply)
         IN  reqs' = [reqs EXCEPT ![c] =
                IF req.error # NoError THEN Caught(req)
                ELSE IF Len(req.data) = 0
                THEN Answer(req, 404, ErrorBody("Activity not found"))
                ELSE Answer(req, 200, req.data[1])]
    /\ UNCHANGED <<storeVars, applied, normVars, importVars>>

\* POST /sessions up to the await
PostSessions(c) ==
    /\ Free(c)
    /\ Len(sessions) + InFlight("POST /sessions") < MaxRows
    /\ \E raw \in SessionRequests :
         LET body == expressJson(raw)
             req == Arrived("POST /sessions", "", raw)
             session_id == Get(body, "session_id")
             user_id == Get(body, "user_id")
             auth_id == Get(body, "auth_id")
         IN  IF ~ Truthy(session_id) \/ ~ Truthy(user_id) \/ ~ Truthy(auth_id)
             THEN reqs' = [reqs EXCEPT ![c] = Answer(req, 400,
                     ErrorBody("session_id and user_id are required"))]
             ELSE \E now \in ServerTimes :
                    reqs' = [reqs EXCEPT ![c] = Await(req,
                        [session_id |-> session_id, user_id |-> user_id,
                         auth_id |-> auth_id, created_at |-> now])]
    /\ UNCHANGED <<storeVars, applied, normVars, importVars>>

PostSessionsResume(c) ==
    /\ Awaiting(c, "POST /sessions")
    /\ \E fault \in StoreFaults :
         LET reply == InsertSelect(sessions, reqs[c].call, fault)
             req == Bound(reqs[c], reply)
         IN  /\ sessions' = reply.table
             /\ reqs' = [reqs EXCEPT ![c] =
                    IF req.error # NoError THEN Caught(req)
                    ELSE Answer(req, 201, req.data[1])]
    /\ UNCHANGED <<tokens, profiles, activities, athletes, athlete_stats,
                   maps, applied, normVars, importVars>>

\* req.params of the route /sessions/:sessionId
SessionParams(sessionId) == [sessionId |-> sessionId]

\* GET /sessions/:sessionId up to the await: the handler reads
\* req.params.session_id, a parameter the route does not have
GetSession(c) ==
    /\ Free(c)
    /\ \E sessionId \in SessionKeys :
         LET params == SessionParams(sessionId)
             session_id == Get(params, "session_id")
             req == Arrived("GET /sessions/:sessionId", sessionId,
                            NoPayload)
         IN  reqs' = [reqs EXCEPT ![c] =
                IF ~ Truthy(session_id)
                THEN Answer(req, 400, ErrorBody("session_id is required"))
                ELSE Await(req, [session_id |-> session_id])]
    /\ UNCHANGED <<storeVars, applied, normVars, importVars>>

\* GET /sessions/:sessionId from the reply of the store on (no request
\* gets here: GetSession never issues the call)
GetSessionResume(c) ==
    /\ Awaiting(c, "GET /sessions/:sessionId")
    /\ \E fault \in StoreFaults :
         LET reply == Single(sessions, {"user_id", "created_at"},
                             "session_id", reqs[c].call.session_id, fault)
             req == Bound(reqs[c], reply)
         IN  reqs' = [reqs EXCEPT ![c] =
                IF req.error # NoError
                THEN LookupErrorAnswer(req, "Session not found")
                ELSE Answer(req, 200, req.data[1])]
    /\ UNCHANGED <<storeVars, applied, normVars, importVars>>

\* GET /auth/:userId up to the await
GetAuth(c) ==
    /\ Free(c)
    /\ \E userId \in UserKeys :
         LET req == Arrived("GET /auth/:userId", userId, NoPayload)
         IN  reqs' = [reqs EXCEPT ![c] =
                IF ~ Truthy(userId)
                THEN Answer(req, 400, ErrorBody("userId is required"))
                ELSE Await(req, [user_id |-> userId])]
    /\ UNCHANGED <<storeVars, applied, normVars, importVars>>

GetAuthResume(c) ==
    /\ Awaiting(c, "GET /auth/:userId")
    /\ \E fault \in StoreFaults :
         LET reply == Single(profiles, {"auth_id", "created_at"},
                             "user_id", reqs[c].key, fault)
             req == Bound(reqs[c], reply)
         IN  reqs' = [reqs EXCEPT ![c] =
                IF req.error # NoError
                THEN LookupErrorAnswer(req, "Auth mapping not found")
                ELSE Answer(req, 200, req.data[1])]
    /\ UNCHANGED <<storeVars, applied, normVars, importVars>>

\* the store as the lookups find it: u1 has a token row and a profile,
\* activity 1 exists; u2 and activity 999 have no row
LookupInit ==
    /\ tokens = << [user_id |-> "u1", refresh_token |-> "r1",
                     access_token |-> "a1", expires_at |-> "d1000",
                     updated_at |-> "t1"] >>
    /\ profiles = << [user_id |-> "u1", auth_id |-> "au1",
                       created_at |-> "t1"] >>
    /\ activities = << StoredActivity("n1", [name |-> "Morning Run"]) >>
    /\ sessions = <<>>
    /\ athletes = <<>> /\ athlete_stats = <<>> /\ maps = <<>>
    /\ reqs = [c \in Conns |-> Idle]
    /\ applied = EmptyObject
    /\ NormIdle

LookupNext ==
    \E c \in Conns :
        \/ GetActivity(c)
        \/ GetActivityResume(c)
        \/ GetRefreshToken(c)
        \/ GetRefreshTokenResume(c)
        \/ GetAccessToken(c)
        \/ GetAccessTokenResume(c)
        \/ PostSessions(c)
        \/ PostSessionsResume(c)
        \/ GetSession(c)
        \/ GetAuth(c)
        \/ GetAuthResume(c)

SpecLookup == LookupInit /\ [][LookupNext]_vars

\* ------------------------------------------------------------------------
\* Updates: POST /athletes/:id, POST /athletes/:id/stats
\* ------------------------------------------------------------------------
\* !obj for the object obj: every object is truthy, the empty one too
NotObject(obj) == FALSE

\* delete obj[key]
Without(obj, key) == [k \in DOMAIN obj \ {key} |-> obj[k]]

\* { key: value, ...obj }: a key of obj wins over the value
SpreadAfter(obj, key, value) ==
    IF key \in DOMAIN obj THEN obj ELSE Extend(obj, key, value)

\* { ...obj, key: value }
Spread(obj, key, value) == Extend(obj, key, value)

\* a row replaced by the patch: it keeps its identity, and the other
\* columns the patch lacks are lost
PatchedReplacesRow(row, patch) ==
    [k \in DOMAIN row \cup DOMAIN patch |->
        IF k \in DOMAIN patch THEN patch[k]
        ELSE IF k \in {"id", "user_id"} THEN row[k]
        ELSE JSNull]

\* a row after the columns of patch are written to it
Patched(row, patch) ==
    [k \in DOMAIN row \cup DOMAIN patch |->
        IF k \in DOMAIN patch THEN patch[k] ELSE row[k]]

\* .update(patch).eq(column, value).select(): the rows that match are
\* patched and returned; no match is an empty array, not an error
UpdateSelect(table, patch, column, value, fault) ==
    LET hit(i) == Eq(<<table[i]>>, column, value) # <<>>
        after == [i \in DOMAIN table |->
                    IF hit(i) THEN Patched(table[i], patch) ELSE table[i]]
    IN  IF fault # "none"
        THEN [data |-> <<>>, error |-> StoreError(fault), table |-> table]
        ELSE [data |-> SelectSeq(after, LAMBDA row :
                          \E i \in DOMAIN table : hit(i) /\ after[i] = row),
              error |-> NoError, table |-> after]

\* the :id of the athlete routes
AthleteKeys == {"u1", "u2"}

\* the requests sent to POST /athletes/:id
AthleteRequests ==
    { Payload([firstname |-> "Bob"]),
      Payload([city |-> "Rome"]),
      Payload([id |-> "n9", user_id |-> "u2", updated_at |-> "c1"]),
      NoPayload }

\* the requests sent to POST /athletes/:id/stats
StatsRequests ==
    { Payload([count |-> "n2"]),
      Payload([id |-> "n9", user_id |-> "u2", updated_at |-> "c1"]),
      NoPayload }

\* POST /athletes/:id up to the await
PostAthlete(c) ==
    /\ Free(c)
    /\ \E id \in AthleteKeys, raw \in AthleteRequests :
         LET req == Arrived("POST /athletes/:id", id, raw)
         IN  IF ~ Truthy(id) \/ NotObject(req.body)
             THEN reqs' = [reqs EXCEPT ![c] = Answer(req, 400, ErrorBody(
                     "Athlete ID and update data are required"))]
             ELSE \E now \in ServerTimes :
                    reqs' = [reqs EXCEPT ![c] = Await(req,
                        Spread(Without(req.body, "id"), "updated_at", now))]
    /\ UNCHANGED <<storeVars, applied, normVars, importVars>>

PostAthleteResume(c) ==
    /\ Awaiting(c, "POST /athletes/:id")
    /\ \E fault \in StoreFaults :
         LET reply == UpdateSelect(athletes, reqs[c].call, "user_id",
                                   reqs[c].key, fault)
             req == Bound(reqs[c], reply)
         IN  /\ athletes' = reply.table
             /\ reqs' = [reqs EXCEPT ![c] =
                    IF req.error # NoError THEN Caught(req)
                    ELSE [Answer(req, 200, EmptyObject)
                            EXCEPT !.rows = req.data]]
    /\ UNCHANGED <<tokens, sessions, profiles, activities, athlete_stats,
                   maps, applied, normVars, importVars>>

\* POST /athletes/:id/stats up to the await
PostAthleteStats(c) ==
    /\ Free(c)
    /\ \E id \in AthleteKeys, raw \in StatsRequests :
         LET req == Arrived("POST /athletes/:id/stats", id, raw)
         IN  IF ~ Truthy(id) \/ NotObject(req.body)
             THEN reqs' = [reqs EXCEPT ![c] = Answer(req, 400, ErrorBody(
                     "Athlete ID and stats data are required"))]
             ELSE \E now \in ServerTimes :
                    reqs' = [reqs EXCEPT ![c] = Await(req,
                        Spread(req.body, "updated_at", now))]
    /\ UNCHANGED <<storeVars, applied, normVars, importVars>>

PostAthleteStatsResume(c) ==
    /\ Awaiting(c, "POST /athletes/:id/stats")
    /\ \E fault \in StoreFaults :
         LET reply == UpdateSelect(athlete_stats, reqs[c].call, "user_id",
                                   reqs[c].key, fault)
             req == Bound(reqs[c], reply)
         IN  /\ athlete_stats' = reply.table
             /\ reqs' = [reqs EXCEPT ![c] =
                    IF req.error # NoError THEN Caught(req)
                    ELSE [Answer(req, 200, EmptyObject)
                            EXCEPT !.rows = req.data]]
    /\ UNCHANGED <<tokens, sessions, profiles, activities, athletes,
                   maps, applied, normVars, importVars>>

\* the store as the updates find it: athlete u1 and the stats of u1
UpdateInit ==
    /\ athletes = << [id |-> "n1", user_id |-> "u1", firstname |-> "Ann",
                       city |-> "Oslo", updated_at |-> "t0"] >>
    /\ athlete_stats = << [id |-> "n1", user_id |-> "u1", count |-> "n1",
                            updated_at |-> "t0"] >>
    /\ tokens = <<>> /\ sessions = <<>> /\ profiles = <<>>
    /\ activities = <<>> /\ maps = <<>>
    /\ reqs = [c \in Conns |-> Idle]
    /\ applied = EmptyObject
    /\ NormIdle

UpdateNext ==
    \E c \in Conns :
        \/ PostAthlete(c)
        \/ PostAthleteResume(c)
        \/ PostAthleteStats(c)
        \/ PostAthleteStatsResume(c)

SpecUpdate == UpdateInit /\ [][UpdateNext]_vars

\* ------------------------------------------------------------------------
\* Inserts: POST /activities, POST /maps, and the listing GET /activities
\* ------------------------------------------------------------------------
\* the requests sent to POST /activities
ActivityRequests ==
    { Payload([name |-> "Morning Run"]),
      Payload([name |-> "Ride", trainer |-> "true", athlete_count |-> "n2"]),
      NoPayload }

\* the requests sent to POST /maps
MapRequests ==
    { Payload([map_id |-> "m1", summary_polyline |-> "xyz"]),
      Payload([map_id |-> "m1", created_at |-> "c1"]),
      NoPayload }

\* the number i as a value
Num(i) == <<"n1", "n2", "n3", "n4">>[i]

\* .insert([row]).select() on activities: the store generates the id
InsertActivity(table, row, fault) ==
    LET stored == StoredActivity(Num(Len(table) + 1), row)
    IN  IF fault # "none"
        THEN [data |-> <<>>, error |-> StoreError(fault), table |-> table]
        ELSE [data |-> <<stored>>, error |-> NoError,
              table |-> Append(table, stored)]

\* .select('*') without a filter
SelectAll(table, fault) ==
    IF fault # "none" THEN Reply(<<>>, StoreError(fault))
    ELSE Reply(table, NoError)

\* the route normalizes the body before the insert
ActivityPayloadNormalized(body) == transformData(body)

\* .insert([req.body])
ActivityPayload(body) == body

\* GET /activities up to the await
GetActivities(c) ==
    /\ Free(c)
    /\ reqs' = [reqs EXCEPT ![c] =
          Await(Arrived("GET /activities", "", NoPayload), EmptyObject)]
    /\ UNCHANGED <<storeVars, applied, normVars, importVars>>

GetActivitiesResume(c) ==
    /\ Awaiting(c, "GET /activities")
    /\ \E fault \in StoreFaults :
         LET req == Bound(reqs[c], SelectAll(activities, fault))
         IN  reqs' = [reqs EXCEPT ![c] =
                IF req.error # NoError THEN Caught(req)
                ELSE [Answer(req, 200, EmptyObject) EXCEPT !.rows = req.data]]
    /\ UNCHANGED <<storeVars, applied, normVars, importVars>>

\* POST /activities up to the await
PostActivity(c) ==
    /\ Free(c)
    /\ Len(activities) + InFlight("POST /activities") < MaxRows
    /\ \E raw \in ActivityRequests :
         LET req == Arrived("POST /activities", "", raw)
         IN  reqs' = [reqs EXCEPT ![c] = Await(req, ActivityPayload(req.body))]
    /\ UNCHANGED <<storeVars, applied, normVars, importVars>>

PostActivityResume(c) ==
    /\ Awaiting(c, "POST /activities")
    /\ \E fault \in StoreFaults :
         LET reply == InsertActivity(activities, reqs[c].call, fault)
             req == Bound(reqs[c], reply)
         IN  /\ activities' = reply.table
             /\ reqs' = [reqs EXCEPT ![c] =
                    IF req.error # NoError THEN Caught(req)
                    ELSE Answer(req, 201, req.data[1])]
    /\ UNCHANGED <<tokens, sessions, profiles, athletes, athlete_stats,
                   maps, applied, normVars, importVars>>

\* POST /maps up to the await
PostMaps(c) ==
    /\ Free(c)
    /\ Len(maps) + InFlight("POST /maps") < MaxRows
    /\ \E raw \in MapRequests :
         LET req == Arrived("POST /maps", "", raw)
         IN  IF NotObject(req.body)
             THEN reqs' = [reqs EXCEPT ![c] =
                     Answer(req, 400, ErrorBody("Map data is required"))]
             ELSE \E now \in ServerTimes :
                    reqs' = [reqs EXCEPT ![c] =
                        Await(req, Spread(req.body, "created_at", now))]
    /\ UNCHANGED <<storeVars, applied, normVars, importVars>>

PostMapsResume(c) ==
    /\ Awaiting(c, "POST /maps")
    /\ \E fault \in StoreFaults :
         LET reply == InsertSelect(maps, reqs[c].call, fault)
             req == Bound(reqs[c], reply)
         IN  /\ maps' = reply.table
             /\ reqs' = [reqs EXCEPT ![c] =
                    IF req.error # NoError THEN Caught(req)
                    ELSE Answer(req, 201, req.data[1])]
    /\ UNCHANGED <<tokens, sessions, profiles, activities, athletes,
                   athlete_stats, applied, normVars, importVars>>

InsertInit == ServerIdle /\ NormIdle

InsertNext ==
    \E c \in Conns :
        \/ GetActivities(c)
        \/ GetActivitiesResume(c)
        \/ PostActivity(c)
        \/ PostActivityResume(c)
        \/ PostMaps(c)
        \/ PostMapsResume(c)

SpecInsert == InsertInit /\ [][InsertNext]_vars

\* ------------------------------------------------------------------------
\* C1: on every point-lookup route, a lookup for which the store reports
\* zero matching rows is answered 404; GET /activities/:id answers it with
\* {error: "Activity not found"}.
\* ------------------------------------------------------------------------
LookupRoutes ==
    {"GET /activities/:id", "GET /tokens/:user_id",
     "GET /refresh-tokens/:user_id", "GET /sessions/:sessionId",
     "GET /auth/:userId"}

\* the rows the lookup of connection c is about
Matching(c) ==
    CASE reqs[c].route = "GET /activities/:id" ->
            Eq(activities, "id", reqs[c].key)
      [] reqs[c].route \in {"GET /tokens/:user_id",
                            "GET /refresh-tokens/:user_id"} ->
            Eq(tokens, "user_id", reqs[c].key)
      [] reqs[c].route = "GET /sessions/:sessionId" ->
            Eq(sessions, "session_id", reqs[c].key)
      [] OTHER -> Eq(profiles, "user_id", reqs[c].key)

\* the store answered the lookup of c and reported that no row matches
ZeroRowsReported(c) ==
    /\ reqs[c].pc = "done" /\ reqs[c].route \in LookupRoutes
    /\ reqs[c].calls = 1
    /\ Matching(c) = <<>>
    /\ reqs[c].error = NoError \/ reqs[c].error.code = "PGRST116"

C1_ZeroRowsIs404 ==
    \A c \in Conns :
        ZeroRowsReported(c) =>
           /\ reqs[c].status = 404
           /\ reqs[c].route = "GET /activities/:id" =>
                 reqs[c].json = ErrorBody("Activity not found")

\* ------------------------------------------------------------------------
\* C2: on every point-lookup route, a store call that fails with an error
\* whose code is not the no-rows code (a failed fetch included) is answered
\* 500, never 404.
\* ------------------------------------------------------------------------
OtherFailure(c) ==
    /\ reqs[c].pc = "done" /\ reqs[c].route \in LookupRoutes
    /\ reqs[c].calls = 1
    /\ reqs[c].error # NoError
    /\ reqs[c].error.code # "PGRST116"

C2_OtherErrorsAre500 ==
    \A c \in Conns : OtherFailure(c) => reqs[c].status = 500

\* a failed fetch on one lookup and a database error on another
C2_Witness ==
    \E c, d \in Conns :
        /\ Done(c, "GET /auth/:userId") /\ OtherFailure(c)
        /\ reqs[c].error.code = ""
        /\ Done(d, "GET /refresh-tokens/:user_id") /\ OtherFailure(d)
        /\ reqs[d].error.code = "XX000"
        /\ reqs[d].status = 500

\* ------------------------------------------------------------------------
\* C3: POST /athletes/:id and POST /athletes/:id/stats never send a patch
\* that has the column id or user_id, and no update changes the id or the
\* user_id of a row.
\* ------------------------------------------------------------------------
UpdateRoutes == {"POST /athletes/:id", "POST /athletes/:id/stats"}

C3_PatchHasNoIdentity ==
    \A c \in Conns :
        reqs[c].route \in UpdateRoutes /\ reqs[c].calls = 1 =>
            DOMAIN reqs[c].call \cap {"id", "user_id"} = {}

C3_RowsKeepIdentity ==
    /\ \A i \in DOMAIN athletes :
          /\ athletes'[i].id = athletes[i].id
          /\ athletes'[i].user_id = athletes[i].user_id
    /\ \A i \in DOMAIN athlete_stats :
          /\ athlete_stats'[i].id = athlete_stats[i].id
          /\ athlete_stats'[i].user_id = athlete_stats[i].user_id

C3_IdentityKept == [] C3_PatchHasNoIdentity /\ [][C3_RowsKeepIdentity]_vars

\* ------------------------------------------------------------------------
\* C6: a request that lacks a required input (a required field of POST
\* /tokens or POST /sessions, the body of POST /maps or of an athlete
\* update, the path key of a lookup) is answered 400 and issues no store
\* call.
\* ------------------------------------------------------------------------
RequiredFields(route) ==
    CASE route = "POST /tokens" ->
            {"user_id", "refresh_token", "access_token", "expires_at"}
      [] route = "POST /sessions" -> {"session_id", "user_id", "auth_id"}
      [] OTHER -> {}

MissingInput(c) ==
    \/ \E k \in RequiredFields(reqs[c].route) :
          Get(reqs[c].body, k) = Undefined
    \/ reqs[c].route \in UpdateRoutes \cup {"POST /maps"} /\ ~ reqs[c].sent
    \/ reqs[c].route \in LookupRoutes /\ reqs[c].key = ""

C6_MissingInputIs400 ==
    \A c \in Conns :
        reqs[c].pc # "idle" /\ MissingInput(c) =>
            reqs[c].status = 400 /\ reqs[c].calls = 0

\* ------------------------------------------------------------------------
\* C7: a GET /sessions/s that arrives when a POST /sessions has stored s is
\* not answered 400 or 404, and is answered 200 with the stored user_id and
\* created_at unless the store fails.
\* ------------------------------------------------------------------------
C7_GetOfStoredSession ==
    \A c \in Conns :
        /\ reqs'[c] # reqs[c]
        /\ reqs'[c].route = "GET /sessions/:sessionId"
        /\ Eq(sessions, "session_id", reqs'[c].key) # <<>>
        => /\ reqs'[c].status \notin {400, 404}
           /\ reqs'[c].pc = "done" /\ reqs'[c].error = NoError =>
                 /\ reqs'[c].status = 200
                 /\ \E i \in DOMAIN sessions :
                       /\ sessions[i].session_id = reqs'[c].key
                       /\ reqs'[c].json =
                            [user_id |-> sessions[i].user_id,
                             created_at |-> sessions[i].created_at]

C7_SessionResolves == [][C7_GetOfStoredSession]_vars

\* ------------------------------------------------------------------------
\* C8 as stated: a POST /activities whose body has only name, accepted by
\* the store, is answered 201 and the stored record has every other column
\* at the default of the normalizer.
\* ------------------------------------------------------------------------
C8_DefaultsApplied ==
    \A c \in Conns :
        /\ Done(c, "POST /activities")
        /\ DOMAIN reqs[c].body = {"name"}
        /\ reqs[c].error = NoError
        => /\ reqs[c].status = 201
           /\ \A f \in ActivityFields :
                 reqs[c].json[f] = transformData(reqs[c].body)[f]

\* C8 amended: POST /activities hands the body to the store as it is, and
\* is answered 201 exactly when the store accepts the insert; the stored
\* record then has the columns of the body and null in every other column.
C8_BodyInsertedAsIs ==
    \A c \in Conns :
        reqs[c].route = "POST /activities" =>
           /\ reqs[c].calls = 1 /\ reqs[c].call = reqs[c].body
           /\ reqs[c].pc = "done" =>
                 /\ reqs[c].status = 201 <=> reqs[c].error = NoError
                 /\ reqs[c].status \in {201, 500}
           /\ reqs[c].status = 201 =>
                 \A f \in ActivityFields :
                    reqs[c].json[f] = IF f \in DOMAIN reqs[c].body
                                      THEN reqs[c].body[f] ELSE JSNull

\* a body with only name was stored: its flags and counters are null
C8_Witness ==
    \E c \in Conns :
        /\ Done(c, "POST /activities") /\ reqs[c].status = 201
        /\ reqs[c].body = [name |-> "Morning Run"]
        /\ reqs[c].json.name = "Morning Run"
        /\ reqs[c].json.trainer = JSNull
        /\ reqs[c].json.athlete_count = JSNull
        /\ Len(activities) > 0

\* ------------------------------------------------------------------------
\* C4: whatever POST /tokens requests were served, in whatever interleaving,
\* tokens holds at most one row per user_id, that row is the row of the last
\* upsert the store applied for the user_id (refresh_token, access_token,
\* expires_at), a 200 of POST /tokens carries the tokens of its body, and a
\* GET /tokens/:user_id the store answers without an error then returns 200
\* with that access_token.
\* ------------------------------------------------------------------------
C4_OneRowPerUser ==
    /\ \A i, j \in DOMAIN tokens :
          tokens[i].user_id = tokens[j].user_id => i = j
    /\ \A u \in DOMAIN applied : Eq(tokens, "user_id", u) = <<applied[u]>>
    /\ \A c \in Conns :
          Done(c, "POST /tokens") /\ reqs[c].status = 200 =>
             /\ reqs[c].json.user_id = reqs[c].body.user_id
             /\ reqs[c].json.refresh_token = reqs[c].body.refresh_token
             /\ reqs[c].json.access_token = reqs[c].body.access_token
             /\ reqs[c].json.expires_at =
                    NewDateOfSeconds(reqs[c].body.expires_at)

C4_GetReturnsLast ==
    \A c \in Conns :
        /\ Awaiting(c, "GET /tokens/:user_id")
        /\ reqs'[c].pc = "done"
        /\ reqs'[c].error = NoError
        /\ reqs[c].key \in DOMAIN applied
        => /\ reqs'[c].status = 200
           /\ reqs'[c].json.access_token = applied[reqs[c].key].access_token

C4_UpsertReplaces == [] C4_OneRowPerUser /\ [][C4_GetReturnsLast]_vars

\* two upserts of u1 were applied, one row is left, and a GET returned the
\* access token of the later one
C4_Witness ==
    \E c, d \in Conns :
        /\ Done(c, "POST /tokens") /\ reqs[c].status = 200
        /\ reqs[c].body = TokenOne
        /\ Done(d, "GET /tokens/:user_id") /\ reqs[d].status = 200
        /\ reqs[d].key = "u1"
        /\ reqs[d].json.access_token = "a2"
        /\ Len(tokens) = 1
        /\ tokens[1].refresh_token = "r2"

\* ------------------------------------------------------------------------
\* C5: POST /tokens answers 409 exactly when the store reports a
\* unique-constraint violation (23505) on the upsert, and 500 on every other
\* store error.
\* ------------------------------------------------------------------------
C5_ConflictIs409 ==
    \A c \in Conns :
        Done(c, "POST /tokens") /\ reqs[c].calls = 1 =>
           /\ Get(reqs[c].error, "code") = "23505" => reqs[c].status = 409
           /\ reqs[c].error # NoError /\ reqs[c].error.code # "23505" =>
                 reqs[c].status = 500
           /\ reqs[c].status = 409 => Get(reqs[c].error, "code") = "23505"

\* one upsert ran into a unique violation, another into a different error
C5_Witness ==
    \E c, d \in Conns :
        /\ Done(c, "POST /tokens") /\ reqs[c].status = 409
        /\ Done(d, "POST /tokens") /\ reqs[d].status = 500
        /\ Get(reqs[d].error, "code") = "XX000"

NormInit ==
    /\ \/ \E K \in KeySets(MaxKeys) :
            \E r \in [K -> AllValues] : IsInputRecord(r, K) /\ inRecord = r
       \/ inRecord = FullRecord
       \/ \E k \in InputKeys :
            inRecord = [x \in InputKeys \ {k} |-> FullRecord[x]]
    /\ out = EmptyObject
    /\ out2 = EmptyObject
    /\ npc = "start"
    /\ ServerIdle
    /\ ImportIdle

\* const transformedData = transformData(inRecord)
Normalize ==
    /\ npc = "start"
    /\ out' = transformData(inRecord)
    /\ npc' = "once"
    /\ UNCHANGED <<inRecord, out2, serverVars, importVars>>

\* the normalizer applied to its own output
NormalizeAgain ==
    /\ npc = "once"
    /\ out2' = transformData(out)
    /\ npc' = "twice"
    /\ UNCHANGED <<inRecord, out, serverVars, importVars>>

NormNext == Normalize \/ NormalizeAgain

SpecNorm == NormInit /\ [][NormNext]_vars

\* ------------------------------------------------------------------------
\* C9: for every input record, each boolean column whose source key is
\* missing is false, athlete_count is 1 when missing, every other counter
\* is 0 when missing, and every other column whose source key is missing is
\* null; no column of the output is undefined.
\* ------------------------------------------------------------------------
Missing(field) == Get(inRecord, SourceKey(field)) = Undefined

C9_Defaults ==
    npc # "start" =>
        /\ DOMAIN out = ActivityFields
        /\ \A f \in ActivityFields :
              /\ out[f] # Undefined
              /\ Missing(f) =>
                    out[f] = (CASE f \in BooleanFields -> "false"
                                [] f = "athlete_count" -> "n1"
                                [] f \in CounterFields -> "n0"
                                [] OTHER -> JSNull)

\* a record with some keys present and the others missing was normalized
C9_Witness ==
    /\ npc = "once"
    /\ Cardinality(DOMAIN inRecord) = MaxKeys
    /\ \E f \in BooleanFields : Missing(f)
    /\ ~ Missing("athlete_count")
    /\ out["name"] = JSNull

\* ------------------------------------------------------------------------
\* C10 as stated: transformData(transformData(r)) = transformData(r).
\* ------------------------------------------------------------------------
C10_Idempotent == npc = "twice" => out2 = out

\* C10 amended: the second pass leaves every column unchanged whose source
\* key has the column's own name, and resets every renamed column to its
\* default (false for has_heart_rate, null for the others).
C10_IdempotentOnSameName ==
    npc = "twice" =>
        /\ DOMAIN out2 = DOMAIN out
        /\ \A f \in ActivityFields \ RenamedFields : out2[f] = out[f]
        /\ \A f \in RenamedFields :
              out2[f] = (IF f = "has_heart_rate" THEN "false" ELSE JSNull)

\* a record with a renamed and a same-name key went through both passes
C10_Witness ==
    /\ npc = "twice"
    /\ Get(inRecord, "id") = "n2"
    /\ Get(inRecord, "distance") = "x"
    /\ out["external_id"] = "2"
    /\ out2["external_id"] = JSNull
    /\ out2["distance"] = "x"

\* ------------------------------------------------------------------------
\* The batch importer: importActivities of the import script
\* ------------------------------------------------------------------------
\* largest number of records in the import file
MaxRecords == 2

\* an element of the JSON array: an object, null, or a number
ObjectElement(obj) == [kind |-> "object", value |-> obj]
NullElement == [kind |-> "null", value |-> EmptyObject]
NumberElement == [kind |-> "number", value |-> EmptyObject]

FileElements ==
    { ObjectElement([id |-> "n2", name |-> "x"]), ObjectElement(EmptyObject),
      NullElement, NumberElement }

RECURSIVE ElementSeqs(_)
\* the arrays of at most n elements
ElementSeqs(n) ==
    IF n = 0 THEN {<<>>}
    ELSE LET shorter == ElementSeqs(n - 1)
         IN  shorter \cup {Append(q, e) : q \in shorter, e \in FileElements}

\* record.id on an element: reading a property of null raises a TypeError
Raises(element) == element.kind = "null"

\* the properties an element has: a number has none
PropertiesOf(element) ==
    IF element.kind = "object" THEN element.value ELSE EmptyObject

\* the catch block returns and the function goes on to its report
OuterCatchFallsThrough(state, error) ==
    [state EXCEPT !.caught = error, !.pc = "report"]

\* catch (error) { console.error(..); process.exit(1) } of the outer try
OuterCatch(state, error) ==
    [state EXCEPT !.caught = error, !.pc = "exited", !.exitCode = 1]

\* JSON.parse(fs.readFileSync(..))
ReadFile ==
    /\ imp.pc = "start"
    /\ imp' = IF ~ file.readable THEN OuterCatch(imp, "read")
               ELSE [imp EXCEPT !.pc = "loop", !.idx = 1]
    /\ UNCHANGED <<file, serverVars, normVars>>

\* for (const record of jsonData): transformData(record), then the insert
\* is issued
NextRecord ==
    /\ imp.pc = "loop"
    /\ imp' =
         IF imp.idx > Len(file.records) THEN [imp EXCEPT !.pc = "report"]
         ELSE IF Raises(file.records[imp.idx])
         THEN OuterCatch(imp, "TypeError")
         ELSE [imp EXCEPT
                 !.pc = "inserting",
                 !.call = transformData(PropertiesOf(file.records[imp.idx])),
                 !.attempts = Append(@, imp.idx)]
    /\ UNCHANGED <<file, serverVars, normVars>>

\* the await of the insert returns { data, error }, or raises
InsertReturns ==
    /\ imp.pc = "inserting"
    /\ \E fault \in StoreFaults \cup {"throw"} :
         IF fault = "throw"
         THEN /\ imp' = [imp EXCEPT !.errorCount = @ + 1, !.idx = @ + 1,
                                    !.pc = "loop"]
              /\ UNCHANGED activities
         ELSE LET reply == InsertActivity(activities, imp.call, fault)
              IN  /\ activities' = reply.table
                  /\ imp' = IF reply.error # NoError
                             THEN [imp EXCEPT !.errorCount = @ + 1,
                                              !.pc = "delay"]
                             ELSE [imp EXCEPT !.successCount = @ + 1,
                                              !.pc = "delay"]
    /\ UNCHANGED <<file, tokens, sessions, profiles, athletes, athlete_stats,
                   maps, reqs, applied, normVars>>

\* await new Promise(resolve => setTimeout(resolve, 100)) is over
DelayOver ==
    /\ imp.pc = "delay"
    /\ imp' = [imp EXCEPT !.delayed = @ \cup {imp.idx}, !.idx = @ + 1,
                          !.pc = "loop"]
    /\ UNCHANGED <<file, serverVars, normVars>>

\* console.log of the two counts; the script ends
Report ==
    /\ imp.pc = "report"
    /\ imp' = [imp EXCEPT !.reported = TRUE, !.pc = "done",
                          !.exitCode = IF @ = -1 THEN 0 ELSE @]
    /\ UNCHANGED <<file, serverVars, normVars>>

ImportInit ==
    /\ \/ file = [readable |-> FALSE, records |-> <<>>]
       \/ \E q \in ElementSeqs(MaxRecords) :
            file = [readable |-> TRUE, records |-> q]
    /\ imp = ImportStart
    /\ ServerIdle
    /\ inRecord = EmptyObject /\ out = EmptyObject /\ out2 = EmptyObject
    /\ npc = "start"

ImportNext == ReadFile \/ NextRecord \/ InsertReturns \/ DelayOver \/ Report

SpecImport == ImportInit /\ [][ImportNext]_vars

\* the importer has stopped, by its report or by process.exit
ImportOver == imp.pc \in {"done", "exited"}

\* C11: the normalizer is total: transformData returns a record and never
\* raises, whatever the element of the input sequence is (an empty record,
\* a record with missing keys, null, a non-object).
C11_NormalizerTotal == imp.caught # "TypeError"

\* C12: for a file of N records the importer attempts every record exactly
\* once in file order, no single record aborts the run, and the run ends
\* reporting successCount + errorCount = N.
C12_EveryRecordCounted ==
    /\ imp.attempts = [k \in 1..Len(imp.attempts) |-> k]
    /\ (file.readable /\ ImportOver) =>
          /\ imp.pc = "done"
          /\ imp.reported
          /\ Len(imp.attempts) = Len(file.records)
          /\ imp.successCount + imp.errorCount = Len(file.records)

\* C13: when reading or parsing the file fails the run is fatal: no insert
\* is issued, the process ends with a non-zero status and no final count
\* is reported.
C13_ReadFailureIsFatal ==
    /\ (~ file.readable /\ imp.pc # "start") =>
          /\ imp.pc = "exited"
          /\ imp.exitCode = 1
          /\ imp.attempts = <<>>
          /\ activities = <<>>
    /\ ~ file.readable => ~ imp.reported

C13_Witness == ~ file.readable /\ imp.pc = "exited" /\ imp.caught = "read"

\* C14: at most one insert is in flight, and the insert of record k+1 is
\* never issued before the delay after record k's attempt is over, whether
\* that attempt succeeded, returned an error, or threw.
C14_DelayBetweenInserts ==
    (imp.pc = "inserting" /\ imp.idx > 1) => (imp.idx - 1) \in imp.delayed

\* ------------------------------------------------------------------------
\* The whole server: every route of the second version, one request per
\* connection
\* ------------------------------------------------------------------------
\* the connection has carried no request yet
Fresh(c) == reqs[c].pc = "idle"

AllInit ==
    /\ tokens = << [user_id |-> "u1", refresh_token |-> "r1",
                     access_token |-> "a1", expires_at |-> "d1000",
                     updated_at |-> "t0"] >>
    /\ profiles = << [user_id |-> "u1", auth_id |-> "au1",
                       created_at |-> "t0"] >>
    /\ activities = << StoredActivity("n1", [name |-> "Morning Run"]) >>
    /\ athletes = << [id |-> "n1", user_id |-> "u1", firstname |-> "Ann",
                       city |-> "Oslo", updated_at |-> "t0"] >>
    /\ athlete_stats = << [id |-> "n1", user_id |-> "u1", count |-> "n1",
                            updated_at |-> "t0"] >>
    /\ sessions = <<>> /\ maps = <<>>
    /\ reqs = [c \in Conns |-> Idle]
    /\ applied = EmptyObject
    /\ NormIdle

AllNext ==
    \E c \in Conns :
        \/ Fresh(c) /\ GetActivities(c)
        \/ GetActivitiesResume(c)
        \/ Fresh(c) /\ GetActivity(c)
        \/ GetActivityResume(c)
        \/ Fresh(c) /\ PostActivity(c)
        \/ PostActivityResume(c)
        \/ Fresh(c) /\ PostTokens(c)
        \/ PostTokensResume(c)
        \/ Fresh(c) /\ GetRefreshToken(c)
        \/ GetRefreshTokenResume(c)
        \/ Fresh(c) /\ GetAccessToken(c)
        \/ GetAccessTokenResume(c)
        \/ Fresh(c) /\ PostAthlete(c)
        \/ PostAthleteResume(c)
        \/ Fresh(c) /\ PostAthleteStats(c)
        \/ PostAthleteStatsResume(c)
        \/ Fresh(c) /\ PostMaps(c)
        \/ PostMapsResume(c)
        \/ Fresh(c) /\ PostSessions(c)
        \/ PostSessionsResume(c)
        \/ Fresh(c) /\ GetSession(c)
        \/ Fresh(c) /\ GetAuth(c)
        \/ GetAuthResume(c)

SpecAll == AllInit /\ [][AllNext]_vars

\* the statuses a request ends in: Success, validation, NotFound, Conflict,
\* StoreError
FinalStatuses == {200, 201, 400, 404, 409, 500}

\* the request is Pending until it is answered
C15_AtMostOneCall ==
    \A c \in Conns :
        /\ reqs[c].calls <= 1
        /\ reqs[c].pc = "awaiting" => reqs[c].calls = 1 /\ reqs[c].status = 0
        /\ reqs[c].pc = "done" => reqs[c].status \in FinalStatuses
        /\ (reqs[c].pc = "done" /\ reqs[c].calls = 0) => reqs[c].status = 400

\* one step of the server, seen from connection c
C15_OneHop ==
    /\ \A c \in Conns :
        /\ (reqs[c].pc = "idle" /\ reqs'[c] # reqs[c]) =>
              \/ reqs'[c].pc = "awaiting" /\ reqs'[c].calls = 1
              \/ reqs'[c].pc = "done" /\ reqs'[c].calls = 0
        /\ (reqs[c].pc = "awaiting" /\ reqs'[c] # reqs[c]) =>
              /\ reqs'[c].pc = "done"
              /\ reqs'[c].calls = 1
              /\ reqs'[c].call = reqs[c].call
        /\ reqs[c].pc = "done" => reqs'[c] = reqs[c]
    /\ storeVars' # storeVars =>
          \E c \in Conns : reqs[c].pc = "awaiting" /\ reqs'[c].pc = "done"

\* C15: every request, on every route and for every store outcome, issues
\* at most one store call, is answered exactly once and only after that
\* call has completed, ends in one hop in Success, NotFound, Conflict,
\* StoreError or a validation 400, and no store call is issued again.
C15_OneCallOneAnswer == [] C15_AtMostOneCall /\ [][C15_OneHop]_vars

\* both connections answered after a store call, one of them with a
\* StoreError
C15_Witness ==
    /\ \A c \in Conns : reqs[c].pc = "done" /\ reqs[c].calls = 1
    /\ reqs["c1"].status = 500 /\ reqs["c1"].route = "POST /tokens"
    /\ reqs["c2"].status = 200

\* ------------------------------------------------------------------------
\* The athlete routes in the two copies of the server
\* ------------------------------------------------------------------------
\* the routes of the earlier copy of the server
EarlierAthlete == "POST /athletes/:id (earlier copy)"
EarlierAthleteStats == "POST /athletes/:id/stats (earlier copy)"

\* the store error is thrown to the catch block
SwallowedThrows(req) == Caught(req)

\* if (error) { return res.status(200).json({ message: error.message }) }
Swallowed(req) == Answer(req, 200, [message |-> req.error.message])

\* POST /athletes/:id of the earlier copy, up to the await
PostAthleteEarlier(c) ==
    /\ Fresh(c)
    /\ \E id \in AthleteKeys, raw \in AthleteRequests :
         LET req == Arrived(EarlierAthlete, id, raw)
         IN  IF ~ Truthy(id) \/ NotObject(req.body)
             THEN reqs' = [reqs EXCEPT ![c] = Answer(req, 400, ErrorBody(
                     "Athlete ID and update data are required"))]
             ELSE \E now \in ServerTimes :
                    reqs' = [reqs EXCEPT ![c] = Await(req,
                        Spread(Without(req.body, "id"), "updated_at", now))]
    /\ UNCHANGED <<storeVars, applied, normVars, importVars>>

PostAthleteEarlierResume(c) ==
    /\ Awaiting(c, EarlierAthlete)
    /\ \E fault \in StoreFaults :
         LET reply == UpdateSelect(athletes, reqs[c].call, "user_id",
                                   reqs[c].key, fault)
             req == Bound(reqs[c], reply)
         IN  /\ athletes' = reply.table
             /\ reqs' = [reqs EXCEPT ![c] =
                    IF req.error # NoError THEN Swallowed(req)
                    ELSE [Answer(req, 200, EmptyObject)
                            EXCEPT !.rows = req.data]]
    /\ UNCHANGED <<tokens, sessions, profiles, activities, athlete_stats,
                   maps, applied, normVars, importVars>>

\* POST /athletes/:id/stats of the earlier copy, up to the await
PostAthleteStatsEarlier(c) ==
    /\ Fresh(c)
    /\ \E id \in AthleteKeys, raw \in StatsRequests :
         LET req == Arrived(EarlierAthleteStats, id, raw)
         IN  IF ~ Truthy(id) \/ NotObject(req.body)
             THEN reqs' = [reqs EXCEPT ![c] = Answer(req, 400, ErrorBody(
                     "Athlete ID and stats data are required"))]
             ELSE \E now \in ServerTimes :
                    reqs' = [reqs EXCEPT ![c] = Await(req,
                        Spread(Without(req.body, "user_id"), "updated_at",
                               now))]
    /\ UNCHANGED <<storeVars, applied, normVars, importVars>>

PostAthleteStatsEarlierResume(c) ==
    /\ Awaiting(c, EarlierAthleteStats)
    /\ \E fault \in StoreFaults :
         LET reply == UpdateSelect(athlete_stats, reqs[c].call, "user_id",
                                   reqs[c].key, fault)
             req == Bound(reqs[c], reply)
         IN  /\ athlete_stats' = reply.table
             /\ reqs' = [reqs EXCEPT ![c] =
                    IF req.error # NoError THEN Swallowed(req)
                    ELSE [Answer(req, 200, EmptyObject)
                            EXCEPT !.rows = req.data]]
    /\ UNCHANGED <<tokens, sessions, profiles, activities, athletes,
                   maps, applied, normVars, importVars>>

\* the current routes on a connection that has carried no request
PostAthleteOnce(c) == Fresh(c) /\ PostAthlete(c)
PostAthleteStatsOnce(c) == Fresh(c) /\ PostAthleteStats(c)

AthletesNext ==
    \E c \in Conns :
        \/ PostAthleteOnce(c)
        \/ PostAthleteResume(c)
        \/ PostAthleteStatsOnce(c)
        \/ PostAthleteStatsResume(c)
        \/ PostAthleteEarlier(c)
        \/ PostAthleteEarlierResume(c)
        \/ PostAthleteStatsEarlier(c)
        \/ PostAthleteStatsEarlierResume(c)

SpecAthletes == UpdateInit /\ [][AthletesNext]_vars

EarlierRoutes == {EarlierAthlete, EarlierAthleteStats}

\* the store reported an error on the update of the request of c
UpdateFailed(c, routes) ==
    /\ reqs[c].pc = "done"
    /\ reqs[c].route \in routes
    /\ reqs[c].error # NoError

\* C16: when the store reports an error on the update of POST /athletes/:id
\* or POST /athletes/:id/stats the route swallows it: the response is 200
\* with a body that carries the error message, not 404 or 500.
C16_ErrorSwallowed ==
    \A c \in Conns :
        UpdateFailed(c, UpdateRoutes \cup EarlierRoutes) =>
            /\ reqs[c].status = 200
            /\ reqs[c].json = [message |-> reqs[c].error.message]

\* C16 as the code has it: the earlier copy swallows the error into 200
\* {message}; the current routes answer 500 {error: message}.
C16_SwallowedInEarlierCopyOnly ==
    \A c \in Conns :
        /\ UpdateFailed(c, EarlierRoutes) =>
              /\ reqs[c].status = 200
              /\ reqs[c].json = [message |-> reqs[c].error.message]
        /\ UpdateFailed(c, UpdateRoutes) =>
              /\ reqs[c].status = 500
              /\ reqs[c].json = ErrorBody(reqs[c].error.message)

C16_Witness ==
    /\ UpdateFailed("c1", {EarlierAthlete}) /\ reqs["c1"].status = 200
    /\ UpdateFailed("c2", {"POST /athletes/:id"}) /\ reqs["c2"].status = 500

\* the store call of the request of c failed, and not by the no-rows signal
\* or a unique-constraint violation
StoreFailed(c) ==
    /\ reqs[c].pc = "done"
    /\ reqs[c].error # NoError
    /\ reqs[c].error.code \notin {"PGRST116", "23505"}

\* C17: on every route a store failure that is neither the no-rows signal
\* nor a unique-constraint violation is answered 500 with the body
\* {error: m}, m the message of the store error and never a generic text,
\* and the store is not called again.
C17_UnderlyingMessage ==
    \A c \in Conns :
        StoreFailed(c) =>
            /\ reqs[c].status = 500
            /\ reqs[c].json = [error |-> reqs[c].error.message]
            /\ reqs[c].calls = 1

\* C17 as the code has it: GET /tokens/:user_id answers 500 with a fixed
\* text in place of the message; every other route passes the message on.
C17_MessageExceptAccessToken ==
    \A c \in Conns :
        StoreFailed(c) =>
            /\ reqs[c].status = 500
            /\ reqs[c].calls = 1
            /\ reqs[c].json =
                  IF reqs[c].route = "GET /tokens/:user_id"
                  THEN [error |-> "Database error occurred"]
                  ELSE [error |-> reqs[c].error.message]
            /\ reqs[c].route = "GET /tokens/:user_id" =>
                  reqs[c].json.error # reqs[c].error.message

C17_Witness ==
    /\ StoreFailed("c1") /\ reqs["c1"].route = "GET /tokens/:user_id"
    /\ StoreFailed("c2") /\ reqs["c2"].route = "POST /maps"
    /\ reqs["c1"].error = reqs["c2"].error
    /\ reqs["c1"].json # reqs["c2"].json

\* the request of c was a POST /athletes/:id with this body for this id,
\* answered 200 with the row it matched
Updated(c, id, body) ==
    /\ Done(c, "POST /athletes/:id")
    /\ reqs[c].key = id
    /\ reqs[c].sent /\ reqs[c].body = body
    /\ reqs[c].status = 200
    /\ reqs[c].rows # <<>>

\* C18: two concurrent POST /athletes/:id for the same id whose patches set
\* disjoint fields both take effect: in every interleaving, once both are
\* answered 200 the matched row carries the values of both patches.
C18_BothPatchesTakeEffect ==
    \A c, e \in Conns : \A id \in AthleteKeys :
        ( /\ c # e
          /\ Updated(c, id, [firstname |-> "Bob"])
          /\ Updated(e, id, [city |-> "Rome"]) ) =>
            \A i \in DOMAIN athletes :
                athletes[i].user_id = id =>
                    /\ athletes[i].firstname = "Bob"
                    /\ athletes[i].city = "Rome"

\* both answered, and the reply to the first patch already shows the second
C18_Witness ==
    /\ Updated("c1", "u1", [firstname |-> "Bob"])
    /\ Updated("c2", "u1", [city |-> "Rome"])
    /\ reqs["c1"].rows[1].city = "Rome"
    /\ reqs["c2"].rows[1].firstname = "Ann"
    /\ \E i \in DOMAIN athletes :
          /\ athletes[i].user_id = "u1"
          /\ athletes[i].firstname = "Bob" /\ athletes[i].city = "Rome"

\* the timestamp the callers of the model send
CallerTime == "c1"

\* the column the route stamps
Stamped(route) == IF route = "POST /maps" THEN "created_at" ELSE "updated_at"

StampingRoutes == UpdateRoutes \cup {"POST /maps"}

\* C19: a caller-supplied timestamp never reaches the store: for a body of
\* POST /athletes/:id or POST /athletes/:id/stats with updated_at, and a
\* body of POST /maps with created_at, the value written for the column is
\* the timestamp of the server, not the value of the caller.
C19_ServerTimestampWritten ==
    /\ \A c \in Conns :
          (reqs[c].route \in StampingRoutes /\ reqs[c].calls = 1) =>
              /\ reqs[c].call[Stamped(reqs[c].route)] \in ServerTimes
              /\ \A j \in DOMAIN reqs[c].rows :
                    reqs[c].rows[j].updated_at \in ServerTimes
              /\ (reqs[c].route = "POST /maps" /\ reqs[c].status = 201) =>
                    reqs[c].json.created_at \in ServerTimes
    /\ \A i \in DOMAIN athletes : athletes[i].updated_at # CallerTime
    /\ \A i \in DOMAIN athlete_stats : athlete_stats[i].updated_at # CallerTime
    /\ \A i \in DOMAIN maps : maps[i].created_at # CallerTime

\* a map and an athlete patch that carried the caller's timestamp are
\* stored with the server's
C19_Witness ==
    /\ Done("c1", "POST /maps")
    /\ Get(reqs["c1"].body, "created_at") = CallerTime
    /\ reqs["c1"].status = 201
    /\ \E i \in DOMAIN maps : maps[i].created_at \in ServerTimes
    /\ Done("c2", "POST /athletes/:id/stats")
    /\ Get(reqs["c2"].body, "updated_at") = CallerTime
    /\ reqs["c2"].status = 200 /\ reqs["c2"].rows # <<>>
    /\ \E i \in DOMAIN athlete_stats :
          athlete_stats[i].updated_at \in ServerTimes

====
